---- MODULE Spec2Model ----
(***************************************************************************)
(* Model of the three sketches of Lab1_template.ino:                       *)
(*   - the serial-command LED controller (setup/loop, lines 9-82);         *)
(*   - IMU streaming sketch 1 (lines 94-113, 115200 baud);                 *)
(*   - IMU streaming sketch 2 (lines 125-144, 9600 baud).                  *)
(* One loop() iteration is one action.  The millisecond counter, the       *)
(* serial receive buffer and the IMU are the environment.                  *)
(***************************************************************************)
EXTENDS Integers, Sequences, FiniteSets, TLC

\* ------------------------------------------------------------------------
\* Program constants
\* ------------------------------------------------------------------------
OFF == 0
ON == 1
BLINK == 2
blinkInterval == 1000

\* Levels of the LED pin.
LOW == "LOW"
HIGH == "HIGH"

\* Width of the millisecond counter (unsigned long), scaled down from 32 bits.
TickBits == 11
TickMod == 2 ^ TickBits

\* ------------------------------------------------------------------------
\* Bounds of the model
\* ------------------------------------------------------------------------
\* Spec stops the clock after MaxTick milliseconds.
MaxTick == 3000
\* Lines the serial receive buffer can hold.
MaxRx == 1

\* Amounts by which the millisecond counter advances between two steps.
Steps == {500, 999, 1000}

\* ------------------------------------------------------------------------
\* Strings as sequences of characters
\* ------------------------------------------------------------------------
CmdOn == <<"o", "n">>
CmdOff == <<"o", "f", "f">>
CmdBlink == <<"b", "l", "i", "n", "k">>
CmdStatus == <<"s", "t", "a", "t", "u", "s">>

\* The lines the host sends (each without its terminating '\n').
Lines ==
  { CmdOn, CmdOff, CmdBlink, CmdStatus,
    <<" ", "o", "n", "\r">>,
    <<"O", "N">>,
    <<"\t", "O", "f", "f", "\r">>,
    <<>> }

Welcome == "Arduino ready for commands (on, off, blink, status)"
ReplyOn == "LED on"
ReplyOff == "LED off"
ReplyBlink == "LED blink"
ReplyUnknown == "Unknown command. Use: on, off, blink, or status"

\* String::trim(): drops leading and trailing whitespace (isspace).
IsSpace(c) == c \in {" ", "\t", "\n", "\r", "\f"}

RECURSIVE TrimLeft(_)
TrimLeft(s) ==
  IF s # <<>> /\ IsSpace(Head(s)) THEN TrimLeft(Tail(s)) ELSE s

RECURSIVE TrimRight(_)
TrimRight(s) ==
  IF s # <<>> /\ IsSpace(s[Len(s)])
  THEN TrimRight(SubSeq(s, 1, Len(s) - 1))
  ELSE s

Trim(s) == TrimRight(TrimLeft(s))

\* ------------------------------------------------------------------------
\* State
\* ------------------------------------------------------------------------
VARIABLES
  ledState,        \* int ledState
  pin,             \* level of LED_BUILTIN
  previousMillis,  \* unsigned long previousMillis
  tick,            \* value millis() returns
  rx,              \* lines waiting in the serial receive buffer
  reply,           \* lines written to Serial by the last setup()/loop() call
  ran,             \* loop() has run since the counter last advanced
  uptime,          \* history: ms since setup(), not wrapped (saturating)
  cmd,             \* history: the command the last loop() call read, if any
  flipped,         \* history: the last loop() call's toggler flipped the pin
  hasFlipped,      \* history: the toggler has flipped the pin at least once
  flipAt,          \* history: uptime of the last toggler flip
  lastSet,         \* history: reply to the last on/off/blink command
  fresh,           \* history: a "blink" was processed and no flip followed yet
  blinkAt,         \* history: uptime when that "blink" was processed, else 0
  steady,          \* history: ledState has been BLINK since the last flip
  sk1,             \* IMU sketch 1: position, serial output, clock, baud rate
  sk2,             \* IMU sketch 2: the same
  began,           \* history: result of IMU.begin()
  fed,             \* history: the samples that were available, in order
  iters,           \* history: loop() calls of the IMU sketches
  seen,            \* history: the lines received, in order (SpecOrder)
  log              \* history: the lines written to Serial, in order (SpecOrder)

progVars == <<ledState, pin, previousMillis, tick, rx, reply, ran>>
histVars ==
  <<uptime, cmd, flipped, hasFlipped, flipAt, lastSet, fresh, blinkAt, steady>>
imuVars == <<sk1, sk2, began, fed, iters>>
orderVars == <<seen, log>>
vars == <<progVars, histVars, imuVars, orderVars>>

NoCmd == [got |-> FALSE, raw |-> <<>>, text |-> <<>>]

\* Subtraction without the wrap of the unsigned type.
SubSigned(a, b) == a - b

\* Unsigned subtraction of the counter's width.
Sub(a, b) == (a - b + TickMod) % TickMod

\* An IMU sketch before setup() runs.
Boot == [pc |-> "setup", out |-> <<>>, now |-> 0, baud |-> 0]

\* ------------------------------------------------------------------------
\* LED controller
\* ------------------------------------------------------------------------
\* State after setup(): globals initialised, pin LOW, welcome printed.
Init ==
  /\ ledState = OFF
  /\ pin = LOW
  /\ previousMillis = 0
  /\ tick = 0
  /\ rx = <<>>
  /\ reply = <<Welcome>>
  /\ ran = FALSE
  /\ uptime = 0
  /\ cmd = NoCmd
  /\ flipped = FALSE
  /\ hasFlipped = FALSE
  /\ flipAt = 0
  /\ lastSet = "none"
  /\ fresh = FALSE
  /\ blinkAt = 0
  /\ steady = FALSE
  /\ sk1 = Boot
  /\ sk2 = Boot
  /\ began = "pending"
  /\ fed = <<>>
  /\ iters = 0
  /\ seen = <<>>
  /\ log = <<Welcome>>

\* StatusReply without its last branch.
StatusReplyNoBlink(st) ==
  IF st = ON THEN <<ReplyOn>>
  ELSE IF st = OFF THEN <<ReplyOff>>
  ELSE <<>>

\* The reply to "status" (lines 56-62).
StatusReply(st) ==
  IF st = ON THEN <<ReplyOn>>
  ELSE IF st = OFF THEN <<ReplyOff>>
  ELSE IF st = BLINK THEN <<ReplyBlink>>
  ELSE <<>>

\* Dispatch whose "off" branch does not write the pin.
DispatchOffKeepsPin(command, st, level) ==
  IF command = CmdOn
  THEN [ledState |-> ON, pin |-> HIGH, out |-> <<ReplyOn>>]
  ELSE IF command = CmdOff
  THEN [ledState |-> OFF, pin |-> level, out |-> <<ReplyOff>>]
  ELSE IF command = CmdBlink
  THEN [ledState |-> BLINK, pin |-> level, out |-> <<ReplyBlink>>]
  ELSE IF command = CmdStatus
  THEN [ledState |-> st, pin |-> level, out |-> StatusReply(st)]
  ELSE [ledState |-> st, pin |-> level, out |-> <<ReplyUnknown>>]

\* Dispatch whose "blink" branch answers like the "on" branch.
DispatchBlinkSaysOn(command, st, level) ==
  IF command = CmdOn
  THEN [ledState |-> ON, pin |-> HIGH, out |-> <<ReplyOn>>]
  ELSE IF command = CmdOff
  THEN [ledState |-> OFF, pin |-> LOW, out |-> <<ReplyOff>>]
  ELSE IF command = CmdBlink
  THEN [ledState |-> BLINK, pin |-> level, out |-> <<ReplyOn>>]
  ELSE IF command = CmdStatus
  THEN [ledState |-> st, pin |-> level, out |-> StatusReply(st)]
  ELSE [ledState |-> st, pin |-> level, out |-> <<ReplyUnknown>>]

\* Dispatch comparing without regard to case.
DispatchCaseless(command, st, level) ==
  IF command \in {CmdOn, <<"O", "N">>}
  THEN [ledState |-> ON, pin |-> HIGH, out |-> <<ReplyOn>>]
  ELSE IF command \in {CmdOff, <<"O", "f", "f">>}
  THEN [ledState |-> OFF, pin |-> LOW, out |-> <<ReplyOff>>]
  ELSE IF command = CmdBlink
  THEN [ledState |-> BLINK, pin |-> level, out |-> <<ReplyBlink>>]
  ELSE IF command = CmdStatus
  THEN [ledState |-> st, pin |-> level, out |-> StatusReply(st)]
  ELSE [ledState |-> st, pin |-> level, out |-> <<ReplyUnknown>>]

\* Dispatch with if for else if: the final else belongs to the last if.
DispatchNoElse(command, st, level) ==
  IF command = CmdOn
  THEN [ledState |-> ON, pin |-> HIGH, out |-> <<ReplyOn, ReplyUnknown>>]
  ELSE IF command = CmdOff
  THEN [ledState |-> OFF, pin |-> LOW, out |-> <<ReplyOff, ReplyUnknown>>]
  ELSE IF command = CmdBlink
  THEN [ledState |-> BLINK, pin |-> level, out |-> <<ReplyBlink, ReplyUnknown>>]
  ELSE IF command = CmdStatus
  THEN [ledState |-> st, pin |-> level, out |-> StatusReply(st)]
  ELSE [ledState |-> st, pin |-> level, out |-> <<ReplyUnknown>>]

\* Dispatch whose "blink" branch switches blinking on and off.
DispatchBlinkToggles(command, st, level) ==
  IF command = CmdOn
  THEN [ledState |-> ON, pin |-> HIGH, out |-> <<ReplyOn>>]
  ELSE IF command = CmdOff
  THEN [ledState |-> OFF, pin |-> LOW, out |-> <<ReplyOff>>]
  ELSE IF command = CmdBlink
  THEN [ledState |-> IF st = BLINK THEN OFF ELSE BLINK,
        pin |-> level, out |-> <<ReplyBlink>>]
  ELSE IF command = CmdStatus
  THEN [ledState |-> st, pin |-> level, out |-> StatusReply(st)]
  ELSE [ledState |-> st, pin |-> level, out |-> <<ReplyUnknown>>]

\* The if/else chain on the trimmed command (lines 44-65).
Dispatch(command, st, level) ==
  IF command = CmdOn
  THEN [ledState |-> ON, pin |-> HIGH, out |-> <<ReplyOn>>]
  ELSE IF command = CmdOff
  THEN [ledState |-> OFF, pin |-> LOW, out |-> <<ReplyOff>>]
  ELSE IF command = CmdBlink
  THEN [ledState |-> BLINK, pin |-> level, out |-> <<ReplyBlink>>]
  ELSE IF command = CmdStatus
  THEN [ledState |-> st, pin |-> level, out |-> StatusReply(st)]
  ELSE [ledState |-> st, pin |-> level, out |-> <<ReplyUnknown>>]

\* The timer comparison with > for >=.
BlinkDueStrict(currentMillis, prev) ==
  Sub(currentMillis, prev) > blinkInterval

\* The timer comparison (line 71).
BlinkDue(currentMillis, prev) == Sub(currentMillis, prev) >= blinkInterval

\* Toggle writing LOW in both branches.
ToggleStuckLow(level) == IF level = HIGH THEN LOW ELSE LOW

\* digitalRead / digitalWrite of the opposite level (lines 75-79).
Toggle(level) == IF level = HIGH THEN LOW ELSE HIGH

\* The blink handler without the assignment to previousMillis.
TogglerNoStamp(st, level, currentMillis, prev) ==
  IF st = BLINK /\ BlinkDue(currentMillis, prev)
  THEN [pin |-> Toggle(level), previousMillis |-> prev, flipped |-> TRUE]
  ELSE [pin |-> level, previousMillis |-> prev, flipped |-> FALSE]

\* The blink handler without the test of ledState.
TogglerAnyState(st, level, currentMillis, prev) ==
  IF BlinkDue(currentMillis, prev)
  THEN [pin |-> Toggle(level), previousMillis |-> currentMillis, flipped |-> TRUE]
  ELSE [pin |-> level, previousMillis |-> prev, flipped |-> FALSE]

\* The blink handler (lines 69-81).
Toggler(st, level, currentMillis, prev) ==
  IF st = BLINK /\ BlinkDue(currentMillis, prev)
  THEN [pin |-> Toggle(level), previousMillis |-> currentMillis, flipped |-> TRUE]
  ELSE [pin |-> level, previousMillis |-> prev, flipped |-> FALSE]

\* Serial.available() > 0 (line 40).
Avail == Len(rx) > 0

\* readStringUntil('\n') and trim() (lines 41-42).
Command == IF Avail THEN Trim(Head(rx)) ELSE <<>>

\* The command branch of this loop() call (lines 40-66).
Dispatched ==
  IF Avail
  THEN Dispatch(Command, ledState, pin)
  ELSE [ledState |-> ledState, pin |-> pin, out |-> <<>>]

\* The blink branch of this loop() call, after the command branch.
Toggled == Toggler(Dispatched.ledState, Dispatched.pin, tick, previousMillis)

\* One call of loop() (lines 38-82): what it does to the program.
LoopProg ==
  /\ ledState' = Dispatched.ledState
  /\ pin' = Toggled.pin
  /\ previousMillis' = Toggled.previousMillis
  /\ rx' = IF Avail THEN Tail(rx) ELSE rx
  /\ reply' = Dispatched.out
  /\ tick' = tick
  /\ ran' = TRUE
  /\ UNCHANGED imuVars

\* What an observer records of that call.
LoopHist ==
  LET isSet == Avail /\ Command \in {CmdOn, CmdOff, CmdBlink}
      isBlink == Avail /\ Command = CmdBlink
  IN /\ cmd' = [got |-> Avail,
                raw |-> IF Avail THEN Head(rx) ELSE <<>>,
                text |-> Command]
     /\ flipped' = Toggled.flipped
     /\ hasFlipped' = (hasFlipped \/ Toggled.flipped)
     /\ flipAt' = IF Toggled.flipped THEN uptime ELSE flipAt
     /\ lastSet' = IF isSet THEN Dispatched.out[1] ELSE lastSet
     /\ fresh' = IF Toggled.flipped THEN FALSE
                 ELSE IF isBlink THEN TRUE
                 ELSE IF isSet THEN FALSE
                 ELSE fresh
     /\ blinkAt' = IF Toggled.flipped THEN 0
                   ELSE IF isBlink THEN uptime
                   ELSE IF isSet THEN 0
                   ELSE blinkAt
     /\ steady' = IF Toggled.flipped THEN TRUE
                  ELSE IF Dispatched.ledState # BLINK THEN FALSE
                  ELSE steady
     /\ uptime' = uptime

Loop == LoopProg /\ LoopHist /\ UNCHANGED orderVars

\* The millisecond counter advances by d.
Advance(d) ==
  /\ tick' = (tick + d) % TickMod
  /\ ran' = FALSE
  /\ UNCHANGED <<ledState, pin, previousMillis, rx, reply>>
  /\ UNCHANGED imuVars
  /\ UNCHANGED orderVars

AdvanceHist(d) ==
  /\ uptime' = IF uptime + d >= MaxTick THEN MaxTick ELSE uptime + d
  /\ UNCHANGED <<cmd, flipped, hasFlipped, flipAt, lastSet, fresh, blinkAt>>
  /\ UNCHANGED steady

\* The clock of Spec: stops after MaxTick ms.
Tick(d) ==
  /\ uptime + d <= MaxTick
  /\ Advance(d)
  /\ AdvanceHist(d)

\* A line arrives in a receive buffer that holds cap lines.
RxLine(l, cap) ==
  /\ Len(rx) < cap
  /\ rx' = Append(rx, l)
  /\ UNCHANGED <<ledState, pin, previousMillis, tick, reply, ran>>
  /\ UNCHANGED histVars
  /\ UNCHANGED imuVars

\* The host sends a line.
Receive(l) == RxLine(l, MaxRx) /\ UNCHANGED orderVars

Next ==
  \/ Loop
  \/ \E d \in Steps : Tick(d)
  \/ \E l \in Lines : Receive(l)

Spec == Init /\ [][Next]_vars

\* ------------------------------------------------------------------------
\* The LED controller with a running clock and a prompt loop: the counter
\* wraps, and loop() runs at least once between two advances of the counter.
\* ------------------------------------------------------------------------
WrapSteps == {256, 512}
WrapLines == {CmdOn, CmdOff, CmdBlink}

LoopW == LoopProg /\ UNCHANGED histVars /\ UNCHANGED orderVars

TickW ==
  /\ ran
  /\ \E d \in WrapSteps : Advance(d)
  /\ UNCHANGED histVars

ReceiveW == \E l \in WrapLines : Receive(l)

NextW == LoopW \/ TickW \/ ReceiveW

SpecWrap == Init /\ [][NextW]_vars /\ WF_vars(LoopW) /\ WF_vars(TickW)

\* ------------------------------------------------------------------------
\* The LED controller polled every millisecond: while ledState is BLINK the
\* counter advances by one and loop() runs between two advances; the clock
\* stops after MaxTick ms, past the wrap of the counter.
\* ------------------------------------------------------------------------
UnitLines == {CmdBlink, CmdOff}

TickU ==
  /\ ran
  /\ \E d \in (IF ledState = BLINK THEN {1} ELSE Steps) : Tick(d)

\* The host sends one line at a time, while the LED is not blinking or right
\* after a flip.
ReceiveU ==
  /\ rx = <<>>
  /\ ledState # BLINK \/ (flipped /\ ran)
  /\ \E l \in UnitLines : Receive(l)

NextU == Loop \/ TickU \/ ReceiveU

SpecUnit == Init /\ [][NextU]_vars

\* ------------------------------------------------------------------------
\* The LED controller with everything received and written on record: the
\* host sends MaxCmds lines in all, which may all wait in the buffer.
\* ------------------------------------------------------------------------
MaxCmds == 3
OrderLines == {CmdOn, CmdOff, CmdBlink, CmdStatus, <<"O", "N">>}
OrderSteps == {500, 1000}

LoopO ==
  /\ LoopProg
  /\ LoopHist
  /\ log' = log \o Dispatched.out
  /\ seen' = seen

TickO == \E d \in OrderSteps : Tick(d)

ReceiveO(l) ==
  /\ Len(seen) < MaxCmds
  /\ RxLine(l, MaxCmds)
  /\ seen' = Append(seen, l)
  /\ log' = log

NextO ==
  \/ LoopO
  \/ TickO
  \/ \E l \in OrderLines : ReceiveO(l)

SpecOrder == Init /\ [][NextO]_vars

\* ------------------------------------------------------------------------
\* IMU sketches
\* ------------------------------------------------------------------------
\* Readings are in units of 10^-5 g.
Unit == 10 ^ 5

\* The samples the IMU delivers: <<x, y, z>>.
Samples ==
  { <<12345, -98765, 100000>>,
    <<0, 99996, -4>>,
    <<-250000, 31415, 7>> }

\* Milliseconds a delay() may take beyond what was asked.
Jitter == {0, 3}

\* Loop() calls SpecImu follows.
MaxIter == 3

FailMsg == "Failed to initialize IMU!"

DigitStr(d) == <<"0", "1", "2", "3", "4", "5", "6", "7", "8", "9">>[d + 1]

\* Print::print(unsigned long): decimal digits, no padding.
RECURSIVE NatStr(_)
NatStr(n) ==
  IF n < 10 THEN DigitStr(n) ELSE NatStr(n \div 10) \o DigitStr(n % 10)

\* The k digits printed after the decimal point, r < 10^k.
RECURSIVE FracStr(_, _)
FracStr(r, k) ==
  IF k = 0 THEN "" ELSE FracStr(r \div 10, k - 1) \o DigitStr(r % 10)

\* Print::print(double, digits): sign, rounding to `digits` decimals,
\* integer part, '.', then the decimals.
PrintFloat(v, digits) ==
  LET mag == IF v < 0 THEN -v ELSE v
      step == 10 ^ (5 - digits)
      rounded == mag + (step \div 2)
      intPart == rounded \div Unit
      frac == (rounded % Unit) \div step
  IN (IF v < 0 THEN "-" ELSE "")
       \o NatStr(intPart) \o "." \o FracStr(frac, digits)

\* SampleLine1 with y and z exchanged.
SampleLine1Swapped(x, y, z) ==
  PrintFloat(x, 4) \o "," \o PrintFloat(z, 4) \o "," \o PrintFloat(y, 4)

\* The line sketch 1 writes for a sample (lines 106-110).
SampleLine1(x, y, z) ==
  PrintFloat(x, 4) \o "," \o PrintFloat(y, 4) \o "," \o PrintFloat(z, 4)

\* SampleLine2 with the default two decimals.
SampleLine2TwoDigits(x, y, z) ==
  PrintFloat(x, 2) \o "," \o PrintFloat(y, 2) \o "," \o PrintFloat(z, 2)

\* The line sketch 2 writes for a sample (lines 137-141).
SampleLine2(x, y, z) ==
  PrintFloat(x, 4) \o "," \o PrintFloat(y, 4) \o "," \o PrintFloat(z, 4)

\* Serial.println: the line and the time it was written.
Println(s, text) == Append(s.out, [text |-> text, at |-> s.now])

\* delay(ms) returning after ms + j milliseconds.
Delay(s, ms, j) == s.now + ms + j

\* setup() of sketch 1 without the while (1).
Setup1NoHalt(s, ok) ==
  IF ~ok
  THEN [s EXCEPT !.baud = 115200, !.out = Println(s, FailMsg), !.pc = "loop"]
  ELSE [s EXCEPT !.baud = 115200, !.pc = "loop"]

\* setup() of sketch 1 (lines 94-100).
Setup1(s, ok) ==
  IF ~ok
  THEN [s EXCEPT !.baud = 115200, !.out = Println(s, FailMsg), !.pc = "halted"]
  ELSE [s EXCEPT !.baud = 115200, !.pc = "loop"]

\* loop() of sketch 1 (lines 102-113).
Loop1(s, avail, sample, j) ==
  LET w == IF avail
           THEN Println(s, SampleLine1(sample[1], sample[2], sample[3]))
           ELSE s.out
  IN [s EXCEPT !.out = w, !.now = Delay(s, 100, j)]

\* setup() of sketch 2 (lines 125-131).
Setup2(s, ok) ==
  IF ~ok
  THEN [s EXCEPT !.baud = 9600, !.out = Println(s, FailMsg), !.pc = "halted"]
  ELSE [s EXCEPT !.baud = 9600, !.pc = "loop"]

\* loop() of sketch 2 with the delay inside the if.
Loop2DelayInIf(s, avail, sample, j) ==
  LET w == IF avail
           THEN Println(s, SampleLine2(sample[1], sample[2], sample[3]))
           ELSE s.out
  IN [s EXCEPT !.out = w, !.now = IF avail THEN Delay(s, 100, j) ELSE s.now]

\* loop() of sketch 2 (lines 133-144).
Loop2(s, avail, sample, j) ==
  LET w == IF avail
           THEN Println(s, SampleLine2(sample[1], sample[2], sample[3]))
           ELSE s.out
  IN [s EXCEPT !.out = w, !.now = Delay(s, 100, j)]

ledVars == <<progVars, histVars, orderVars>>

\* Both sketches run setup() on the same IMU.begin() result.
ImuBegin(ok) ==
  /\ sk1.pc = "setup"
  /\ sk2.pc = "setup"
  /\ sk1' = Setup1(sk1, ok)
  /\ sk2' = Setup2(sk2, ok)
  /\ began' = IF ok THEN "ok" ELSE "failed"
  /\ UNCHANGED <<fed, iters>>
  /\ UNCHANGED ledVars

\* Both sketches run loop() once on the same IMU results.
ImuPoll(avail, sample, j) ==
  /\ sk1.pc = "loop" \/ sk2.pc = "loop"
  /\ iters < MaxIter
  /\ sk1' = IF sk1.pc = "loop" THEN Loop1(sk1, avail, sample, j) ELSE sk1
  /\ sk2' = IF sk2.pc = "loop" THEN Loop2(sk2, avail, sample, j) ELSE sk2
  /\ fed' = IF avail THEN Append(fed, sample) ELSE fed
  /\ iters' = iters + 1
  /\ UNCHANGED began
  /\ UNCHANGED ledVars

\* while (1); of a sketch whose setup() failed (lines 98, 129).
ImuSpin ==
  /\ sk1.pc = "halted" \/ sk2.pc = "halted"
  /\ UNCHANGED vars

NextImu ==
  \/ \E ok \in BOOLEAN : ImuBegin(ok)
  \/ \E avail \in BOOLEAN, sample \in Samples, j \in Jitter :
       ImuPoll(avail, sample, j)
  \/ ImuSpin

SpecImu == Init /\ [][NextImu]_vars

\* ------------------------------------------------------------------------
\* Properties of the LED controller
\* ------------------------------------------------------------------------
\* The last loop() call read the command c.
Processed(c) == cmd.got /\ cmd.text = c

\* C1: at every loop boundary ledState is OFF, ON or BLINK; ON implies the
\* pin is HIGH and OFF implies the pin is LOW.
StatePinInv ==
  /\ ledState \in {OFF, ON, BLINK}
  /\ pin \in {LOW, HIGH}
  /\ ledState = ON => pin = HIGH
  /\ ledState = OFF => pin = LOW

\* C1 witness: blinking has driven the pin HIGH.
StatePinWitness == ledState = BLINK /\ pin = HIGH /\ hasFlipped

\* C2: "on" sets ON, pin HIGH, reply "LED on"; "off" sets OFF, pin LOW,
\* reply "LED off"; "blink" sets BLINK, reply "LED blink".
CommandMapping ==
  /\ Processed(CmdOn) =>
       ledState = ON /\ pin = HIGH /\ reply = <<"LED on">>
  /\ Processed(CmdOff) =>
       ledState = OFF /\ pin = LOW /\ reply = <<"LED off">>
  /\ Processed(CmdBlink) =>
       ledState = BLINK /\ reply = <<"LED blink">>

\* C2 witness: "off" processed after the toggler had flipped the pin.
CommandMappingWitness == Processed(CmdOff) /\ hasFlipped

\* C3: the reply to "status" is the one line that answered the most recent
\* on/off/blink command, or "LED off" if there was none.
StatusEchoes ==
  Processed(CmdStatus) =>
    reply = <<IF lastSet = "none" THEN "LED off" ELSE lastSet>>

\* C3 witness: "status" answered while blinking.
StatusEchoesWitness == Processed(CmdStatus) /\ lastSet = "LED blink"

\* This step is a loop() call whose toggler flipped the pin.
FlipStep == Loop /\ flipped'

\* C4: the toggler flips only when ledState = BLINK and the tick is at least
\* blinkInterval past previousMillis; a flip inverts the pin and stores the
\* tick in previousMillis; previousMillis holds the tick of the last flip;
\* two consecutive flips are at least blinkInterval ms apart.
TogglerSafe ==
  /\ [][FlipStep =>
          /\ ledState' = BLINK
          /\ Sub(tick, previousMillis) >= blinkInterval
          /\ pin' # pin
          /\ previousMillis' = tick
          /\ hasFlipped => uptime - flipAt >= blinkInterval]_vars
  /\ [][previousMillis' # previousMillis => FlipStep]_vars
  /\ [][pin' # pin =>
          FlipStep \/ (Loop /\ cmd'.got /\ cmd'.text \in {CmdOn, CmdOff})]_vars
  /\ [](hasFlipped => previousMillis = flipAt % TickMod)

\* C4 witness: a flip after the counter wrapped.
TogglerSafeWitness == flipped /\ uptime >= TickMod /\ tick = previousMillis

\* C10 as stated: the first flip after a "blink" is at least blinkInterval ms
\* after the command, and never in the loop() call that read it.
FlipWaitsForBlink ==
  [][(FlipStep /\ (fresh \/ (cmd'.got /\ cmd'.text = CmdBlink))) =>
       /\ ~(cmd'.got /\ cmd'.text = CmdBlink)
       /\ uptime - blinkAt >= blinkInterval]_vars

\* C10 amended: the loop() call that reads "blink" flips the pin exactly when
\* the tick is already blinkInterval past previousMillis, and the first flip
\* after a "blink" is at least blinkInterval ms after the previous flip (after
\* start-up if there was none).
FlipWaitsForLastFlip ==
  /\ [][(Loop /\ cmd'.got /\ cmd'.text = CmdBlink) =>
          /\ flipped' <=> Sub(tick, previousMillis) >= blinkInterval
          /\ flipped' => pin' # pin]_vars
  /\ [][(FlipStep /\ (fresh \/ (cmd'.got /\ cmd'.text = CmdBlink))) =>
          uptime - (IF hasFlipped THEN flipAt ELSE 0) >= blinkInterval]_vars

\* C10 witness: the pin flipped in the loop() call that read "blink".
FlipWithBlinkWitness == Processed(CmdBlink) /\ flipped /\ flipAt = uptime

\* C5: if ledState stays BLINK from some point on, the pin is HIGH infinitely
\* often and LOW infinitely often.
BlinkLive ==
  <>[](ledState = BLINK) => ([]<>(pin = HIGH) /\ []<>(pin = LOW))

\* C5 witness: blinking drove the pin HIGH after the counter wrapped.
BlinkLiveWitness == ledState = BLINK /\ pin = HIGH /\ previousMillis > tick

\* ------------------------------------------------------------------------
\* Properties of the IMU sketches
\* ------------------------------------------------------------------------
Texts(s) == [i \in 1..Len(s.out) |-> s.out[i].text]

\* The line a sample is to appear as.
Expected(sample) ==
  CASE sample = <<12345, -98765, 100000>> -> "0.1235,-0.9877,1.0000"
    [] sample = <<0, 99996, -4>> -> "0.0000,1.0000,-0.0000"
    [] sample = <<-250000, 31415, 7>> -> "-2.5000,0.3142,0.0001"

\* C6: if IMU.begin() fails, the sketch prints the failure message once and
\* halts: loop() never runs, nothing else is written, the state is never left.
HaltOnInitFailure ==
  /\ [](began = "failed" =>
          /\ sk1.pc = "halted" /\ Texts(sk1) = <<FailMsg>>
          /\ sk2.pc = "halted" /\ Texts(sk2) = <<FailMsg>>
          /\ iters = 0)
  /\ [][sk1.pc = "halted" => sk1' = sk1]_vars
  /\ [][sk2.pc = "halted" => sk2' = sk2]_vars

\* C6 witness: both sketches halted after a failed IMU.begin().
HaltWitness == began = "failed" /\ sk1.pc = "halted" /\ sk2.pc = "halted"

\* C7: after a successful init the output is one line "x,y,z" per loop() call
\* that saw a sample, in order, and nothing else.
OneLinePerSample ==
  began = "ok" =>
    /\ Texts(sk1) = [i \in 1..Len(fed) |-> Expected(fed[i])]
    /\ Texts(sk2) = [i \in 1..Len(fed) |-> Expected(fed[i])]

\* C7 witness: two samples written, and a loop() call without a sample.
OneLinePerSampleWitness ==
  began = "ok" /\ Len(sk1.out) = 2 /\ Len(sk2.out) = 2 /\ iters > Len(fed)

Spaced(s) ==
  \A i \in 1..(Len(s.out) - 1) : s.out[i + 1].at - s.out[i].at >= 100

\* C8: every loop() call takes at least 100 ms, with or without a sample, so
\* at most one line is written per call and lines are at least 100 ms apart.
FixedRate ==
  began = "ok" =>
    /\ sk1.now >= 100 * iters /\ Len(sk1.out) <= iters /\ Spaced(sk1)
    /\ sk2.now >= 100 * iters /\ Len(sk2.out) <= iters /\ Spaced(sk2)

\* C8 witness: a line, a call without a sample, then another line.
FixedRateWitness ==
  /\ iters = 3
  /\ Len(sk1.out) = 2
  /\ sk1.out[2].at - sk1.out[1].at >= 200

\* C9: on the same IMU results both sketches write the same lines and are
\* both halted or both running; they differ in the baud rate.
SketchesEquivalent ==
  /\ sk1.pc = sk2.pc
  /\ Texts(sk1) = Texts(sk2)
  /\ began # "pending" => sk1.baud = 115200 /\ sk2.baud = 9600

\* C9 witness: both running with the same two lines written.
SketchesEquivalentWitness ==
  began = "ok" /\ Len(sk1.out) = 2 /\ Texts(sk1) = Texts(sk2) /\ sk2.pc = "loop"

\* ------------------------------------------------------------------------
\* Continuous blinking across the wrap of the counter
\* ------------------------------------------------------------------------
\* C11: while ledState stays BLINK and loop() runs at every tick, the flip
\* after a flip at tick t happens exactly blinkInterval ms after t, also when
\* the counter wraps in between: none earlier, none skipped.
ExactAcrossWrap ==
  /\ [][(FlipStep /\ steady) => uptime - flipAt = blinkInterval]_vars
  /\ []((steady /\ ran) => uptime - flipAt < blinkInterval)

\* C11 witness: a flip whose interval began before the wrap and ended after.
ExactAcrossWrapWitness ==
  /\ flipped /\ steady
  /\ flipAt = uptime
  /\ uptime >= TickMod + blinkInterval - blinkInterval \div 2
  /\ previousMillis < blinkInterval
  /\ uptime - previousMillis = TickMod

\* ------------------------------------------------------------------------
\* Unknown commands
\* ------------------------------------------------------------------------
\* The four commands.
Known ==
  { <<"o", "n">>, <<"o", "f", "f">>, <<"b", "l", "i", "n", "k">>,
    <<"s", "t", "a", "t", "u", "s">> }

\* What is left of a received line without its surrounding whitespace.
Stripped(line) ==
  CASE line = <<" ", "o", "n", "\r">> -> <<"o", "n">>
    [] line = <<"\t", "O", "f", "f", "\r">> -> <<"O", "f", "f">>
    [] OTHER -> line

\* C12: a token that, trimmed, is none of on, off, blink, status (case
\* matters) gets exactly the unknown-command reply, and its dispatch changes
\* neither ledState nor the pin nor previousMillis.
UnknownHandled ==
  /\ []((cmd.got /\ Stripped(cmd.raw) \notin Known) =>
          reply = <<"Unknown command. Use: on, off, blink, or status">>)
  /\ []((Avail /\ Stripped(Head(rx)) \notin Known) =>
          Dispatched.ledState = ledState /\ Dispatched.pin = pin)
  /\ [][(Loop /\ cmd'.got /\ Stripped(cmd'.raw) \notin Known) =>
          /\ ledState' = ledState
          /\ ~flipped' => (pin' = pin /\ previousMillis' = previousMillis)]_vars

\* C12 witness: "\tOff\r" answered as unknown while the LED is on.
UnknownHandledWitness ==
  /\ cmd.got
  /\ cmd.raw = <<"\t", "O", "f", "f", "\r">>
  /\ reply = <<ReplyUnknown>>
  /\ ledState = ON
  /\ pin = HIGH

\* ------------------------------------------------------------------------
\* Frame of the steady states
\* ------------------------------------------------------------------------
\* C13: while ledState is ON or OFF, a loop() call that reads no command or
\* reads "status" changes neither ledState nor the pin nor previousMillis,
\* whatever the tick; the pin is written only by "on", "off" and the BLINK
\* toggler, ledState only by "on", "off" and "blink".
SteadyFrame ==
  /\ [][(Loop /\ ledState \in {ON, OFF}
            /\ (~cmd'.got \/ cmd'.text = <<"s", "t", "a", "t", "u", "s">>)) =>
          /\ ledState' = ledState
          /\ pin' = pin
          /\ previousMillis' = previousMillis]_vars
  /\ [][tick' # tick =>
          /\ ledState' = ledState
          /\ pin' = pin
          /\ previousMillis' = previousMillis]_vars
  /\ [][pin' # pin =>
          /\ Loop
          /\ \/ cmd'.got /\ cmd'.text = <<"o", "n">> /\ pin' = HIGH
             \/ cmd'.got /\ cmd'.text = <<"o", "f", "f">> /\ pin' = LOW
             \/ flipped' /\ ledState' = BLINK]_vars
  /\ [][ledState' # ledState =>
          /\ Loop
          /\ cmd'.got
          /\ \/ cmd'.text = <<"o", "n">> /\ ledState' = ON
             \/ cmd'.text = <<"o", "f", "f">> /\ ledState' = OFF
             \/ cmd'.text = <<"b", "l", "i", "n", "k">> /\ ledState' = BLINK]_vars

\* C13 witness: loop() ran without a command while the LED was on and the
\* tick was more than a blink interval past previousMillis.
SteadyFrameWitness ==
  /\ ledState = ON
  /\ ran
  /\ ~cmd.got
  /\ ~flipped
  /\ Sub(tick, previousMillis) >= blinkInterval

\* ------------------------------------------------------------------------
\* Requests and replies
\* ------------------------------------------------------------------------
\* The mode a command leaves the controller in, and the line that answers it.
ModeAfter(token, mode) ==
  CASE Stripped(token) = <<"o", "n">> -> "on"
    [] Stripped(token) = <<"o", "f", "f">> -> "off"
    [] Stripped(token) = <<"b", "l", "i", "n", "k">> -> "blink"
    [] OTHER -> mode

AnswerTo(token, mode) ==
  CASE Stripped(token) = <<"s", "t", "a", "t", "u", "s">> -> "LED " \o mode
    [] Stripped(token) \in Known -> "LED " \o ModeAfter(token, mode)
    [] OTHER -> "Unknown command. Use: on, off, blink, or status"

RECURSIVE Answers(_, _)
Answers(tokens, mode) ==
  IF tokens = <<>>
  THEN <<>>
  ELSE <<AnswerTo(Head(tokens), mode)>>
         \o Answers(Tail(tokens), ModeAfter(Head(tokens), mode))

\* C14: after the welcome line each loop() call consumes at most one token;
\* every consumed token gets exactly one reply line; replies come in the
\* order the tokens were received; no reply without a consumed token.
RepliesInOrder ==
  /\ [](LET n == Len(seen) - Len(rx)
        IN /\ n >= 0
           /\ rx = SubSeq(seen, n + 1, Len(seen))
           /\ log = <<"Arduino ready for commands (on, off, blink, status)">>
                      \o Answers(SubSeq(seen, 1, n), "off"))
  /\ [][LoopO =>
          /\ Len(rx) - Len(rx') \in {0, 1}
          /\ Len(log') - Len(log) = Len(rx) - Len(rx')]_vars
  /\ [][log' # log => (LoopO /\ Avail)]_vars

\* C14 witness: three lines were received and answered in the order received,
\* the status line by the mode the line before it had set.
RepliesInOrderWitness ==
  /\ seen = <<CmdBlink, CmdStatus, <<"O", "N">>>>
  /\ rx = <<>>
  /\ log = <<Welcome, ReplyBlink, ReplyBlink, ReplyUnknown>>
  /\ ~ran

\* ------------------------------------------------------------------------
\* Idempotence of the commands
\* ------------------------------------------------------------------------
\* C15: a command dispatched twice in succession, with no toggler flip in
\* between, leaves ledState, pin and previousMillis as after the first time
\* and gets the same reply; a repeated "blink" neither changes the pin nor
\* restarts the blink timer.
CommandsIdempotent ==
  /\ [](\A c \in Known :
          LET once == Dispatch(c, ledState, pin)
              twice == Dispatch(c, once.ledState, once.pin)
          IN twice = once)
  /\ [][(LoopO /\ cmd.got /\ cmd'.got /\ cmd.text \in Known
            /\ cmd'.text = cmd.text /\ ~flipped /\ ~flipped') =>
          /\ ledState' = ledState
          /\ pin' = pin
          /\ previousMillis' = previousMillis
          /\ reply' = reply]_vars

\* C15 witness: "blink" read by two loop() calls in a row, half a blink
\* interval after a flip, with the timer left where the flip set it.
CommandsIdempotentWitness ==
  /\ Len(seen) >= 2
  /\ seen[Len(seen)] = CmdBlink
  /\ seen[Len(seen) - 1] = CmdBlink
  /\ rx = <<>>
  /\ log[Len(log)] = ReplyBlink
  /\ log[Len(log) - 1] = ReplyBlink
  /\ Processed(CmdBlink)
  /\ blinkAt = uptime
  /\ hasFlipped /\ ~flipped
  /\ uptime - flipAt = blinkInterval \div 2
  /\ Sub(tick, previousMillis) = blinkInterval \div 2

====
